---- MODULE Spec2Model ----
(***************************************************************************)
(* Model of src/src/locks/locks.cpp: the test-and-set SpinLock and the     *)
(* ReentrantLock32 built on one atomic word (m_atomic, 0 = unlocked) and a *)
(* plain reference count (m_refCount).                                     *)
(*                                                                         *)
(* Every access to shared memory is one step of the calling thread, so the *)
(* interleavings of the threads are the interleavings of these steps.  The *)
(* atomic read-modify-write operations (test_and_set, compare_exchange)    *)
(* are single steps; the plain ++m_refCount / --m_refCount are a read step *)
(* followed by a write step, so that an unsynchronised (racing) update can *)
(* lose an increment.                                                      *)
(***************************************************************************)
EXTENDS Integers, Sequences, FiniteSets, TLC

\* ---- bounds of the model ----
NThreads == 2        \* threads that use a lock
Iters    == 2        \* critical sections each SpinLock client runs
MaxCalls == 6        \* calls the ReentrantLock32 clients make in one run
MaxStray == 1        \* Release calls on g_lock by threads that do not hold it

Threads == 1..NThreads

VARIABLES
    \* SpinLock g_lock and its clients
    g_lock,      \* SpinLock::m_atomic of g_lock: TRUE = set (Locked)
    spc,         \* position of each SpinLock client
    sret,        \* result of each client's last SpinLock::TryAcquire
    X,           \* the shared integer the clients increment
    reg,         \* each client's private copy of X between read and write
    iter,        \* critical sections each client has completed
    \* ReentrantLock32 and its clients
    m_atomic,    \* ReentrantLock32::m_atomic: 0 or the owner's hashed id
    m_refCount,  \* ReentrantLock32::m_refCount
    pc,          \* position of each ReentrantLock32 client
    tmp,         \* the value a client read for ++m_refCount / --m_refCount
    ret,         \* result of the last TryAcquire: "none", "true", "false"
    holds,       \* per client: the calls whose hold it has not released yet
    tid,         \* hasher(std::this_thread::get_id()) of each thread
    live,        \* the threads the program runs
    calls,       \* number of calls made so far
    hist,        \* the calls made so far when the program runs a single thread
    casTries,    \* compare-and-swap attempts of each client's current call
    \* ScopedLock<SpinLock> janitors on g_lock
    scopes,      \* per thread: the functions whose janitor it has declared
    nAcquire,    \* per thread: Acquire calls on g_lock that have returned
    nRelease,    \* per thread: Release calls on g_lock
    exit,        \* how each thread's last function returned
    stray,       \* Release calls on g_lock made by threads that do not hold it
    \* the lock word and the protected data under the C++ memory model
    lockType,    \* the class of the lock that protects the data
    mo,          \* modification order of the lock word: the values stored, each
                 \* with the data write a reader that synchronizes with it sees
    data,        \* the values written to the protected data, in order
    mpc,         \* position of each client of the protected data
    vLock,       \* per thread: the oldest entry of mo a load may still return
    vData,       \* per thread: the oldest entry of data a read may still return
    relv,        \* per thread: vData at its last release fence
    acqv,        \* per thread: what its next acquire fence makes visible
    seen,        \* per thread: the entry of data its last read returned
    need,        \* per thread: the value of pub when its current call began
    pub,         \* newest entry of data written before a completed Release
    mdone        \* per thread: calls on the lock made so far

spinVars == <<g_lock, spc, sret, X, reg, iter>>
reVars   == <<m_atomic, m_refCount, pc, tmp, ret, holds, tid, live, calls, hist, casTries>>
guardVars == <<scopes, nAcquire, nRelease, exit, stray>>
memVars  == <<lockType, mo, data, mpc, vLock, vData, relv, acqv, seen, need, pub, mdone>>
vars     == <<g_lock, spc, sret, X, reg, iter,
              m_atomic, m_refCount, pc, tmp, ret, holds, tid, live, calls, hist, casTries,
              scopes, nAcquire, nRelease, exit, stray,
              lockType, mo, data, mpc, vLock, vData, relv, acqv, seen, need, pub, mdone>>

\* ---- thread identities ----
\* std::hash<std::thread::id> of the thread's id.  The threads of a run have
\* pairwise distinct ids; here their hashes are pairwise distinct and non-zero.
hasher(t) == 2 * t + 1

\* ---- initial states ----
InitSpin ==
    /\ g_lock = FALSE
    /\ spc = [t \in Threads |-> "idle"]
    /\ sret = [t \in Threads |-> FALSE]
    /\ X = 0
    /\ reg = [t \in Threads |-> 0]
    /\ iter = [t \in Threads |-> 0]

InitLock ==
    /\ m_atomic = 0
    /\ m_refCount = 0
    /\ pc = [t \in Threads |-> "idle"]
    /\ tmp = [t \in Threads |-> 0]
    /\ ret = [t \in Threads |-> "none"]
    /\ holds = [t \in Threads |-> <<>>]
    /\ calls = 0
    /\ hist = <<>>
    /\ casTries = [t \in Threads |-> 0]
    /\ tid = [t \in Threads |-> hasher(t)]

\* The lock word holds its initial value, the data its initial value 0, and
\* every thread has seen both.
InitMem(types) ==
    /\ lockType \in types
    /\ mo = <<[val |-> 0, view |-> 1]>>
    /\ data = <<0>>
    /\ mpc = [t \in Threads |-> "idle"]
    /\ vLock = [t \in Threads |-> 1]
    /\ vData = [t \in Threads |-> 1]
    /\ relv = [t \in Threads |-> 1]
    /\ acqv = [t \in Threads |-> 1]
    /\ seen = [t \in Threads |-> 1]
    /\ need = [t \in Threads |-> 1]
    /\ pub = 1
    /\ mdone = [t \in Threads |-> 0]

InitGuard ==
    /\ scopes = [t \in Threads |-> <<>>]
    /\ nAcquire = [t \in Threads |-> 0]
    /\ nRelease = [t \in Threads |-> 0]
    /\ exit = [t \in Threads |-> "none"]
    /\ stray = 0

Init ==
    /\ InitSpin
    /\ InitLock
    /\ InitGuard
    /\ InitMem({"SpinLock"})
    /\ live = Threads

InitSolo ==
    /\ InitSpin
    /\ InitLock
    /\ InitGuard
    /\ InitMem({"SpinLock"})
    /\ live = {1}

(***************************************************************************)
(* SpinLock                                                                *)
(***************************************************************************)

\* A plausible slip: the flag is only tested, never set.
TryAcquireTestOnly(t) ==
    /\ sret' = [sret EXCEPT ![t] = ~g_lock]
    /\ UNCHANGED g_lock

\* A plausible slip: the result is not tied to the value that was read.
TryAcquireAlwaysTrue(t) ==
    /\ g_lock' = TRUE
    /\ sret' = [sret EXCEPT ![t] = TRUE]

\* A plausible slip: "return alreadyLocked" in place of "return !alreadyLocked".
TryAcquireInverted(t) ==
    /\ g_lock' = TRUE
    /\ sret' = [sret EXCEPT ![t] = g_lock]

\* SpinLock::TryAcquire: m_atomic.test_and_set(acquire) is one atomic step that
\* sets the flag and yields its previous value; the result is its negation.
SpinLock_TryAcquire(t) ==
    /\ g_lock' = TRUE
    /\ sret' = [sret EXCEPT ![t] = ~g_lock]

\* A plausible slip: Release leaves the flag set.
ReleaseKeepsFlag(t) ==
    g_lock' = g_lock

\* SpinLock::Release: m_atomic.clear(release).
SpinLock_Release(t) ==
    g_lock' = FALSE

\* A client enters SpinLock::Acquire.
SpinAcquireCall(t) ==
    /\ spc[t] = "idle"
    /\ iter[t] < Iters
    /\ spc' = [spc EXCEPT ![t] = "acquire"]
    /\ UNCHANGED <<g_lock, sret, X, reg, iter>>
    /\ UNCHANGED <<reVars, guardVars, memVars>>

\* One evaluation of the loop condition of SpinLock::Acquire, !TryAcquire().
SpinAcquireLoop(t) ==
    /\ spc[t] = "acquire"
    /\ SpinLock_TryAcquire(t)
    /\ spc' = [spc EXCEPT ![t] = IF sret'[t] THEN "cs_read" ELSE "pause"]
    /\ UNCHANGED <<X, reg, iter>>
    /\ UNCHANGED <<reVars, guardVars, memVars>>

\* PAUSE() in the body of the loop, then back to the condition.
SpinPause(t) ==
    /\ spc[t] = "pause"
    /\ spc' = [spc EXCEPT ![t] = "acquire"]
    /\ UNCHANGED <<g_lock, sret, X, reg, iter>>
    /\ UNCHANGED <<reVars, guardVars, memVars>>

\* A client calls SpinLock::TryAcquire directly ...
SpinTryCall(t) ==
    /\ spc[t] = "idle"
    /\ iter[t] < Iters
    /\ spc' = [spc EXCEPT ![t] = "try"]
    /\ UNCHANGED <<g_lock, sret, X, reg, iter>>
    /\ UNCHANGED <<reVars, guardVars, memVars>>

\* ... and enters the critical section only when it returns true.
SpinTryAcquire(t) ==
    /\ spc[t] = "try"
    /\ SpinLock_TryAcquire(t)
    /\ spc' = [spc EXCEPT ![t] = IF sret'[t] THEN "cs_read" ELSE "idle"]
    /\ UNCHANGED <<X, reg, iter>>
    /\ UNCHANGED <<reVars, guardVars, memVars>>

\* The critical section X = X + 1: the read of X ...
CriticalRead(t) ==
    /\ spc[t] = "cs_read"
    /\ reg' = [reg EXCEPT ![t] = X]
    /\ spc' = [spc EXCEPT ![t] = "cs_write"]
    /\ UNCHANGED <<g_lock, sret, X, iter>>
    /\ UNCHANGED <<reVars, guardVars, memVars>>

\* ... and the write of X.
CriticalWrite(t) ==
    /\ spc[t] = "cs_write"
    /\ X' = reg[t] + 1
    /\ spc' = [spc EXCEPT ![t] = "release"]
    /\ UNCHANGED <<g_lock, sret, reg, iter>>
    /\ UNCHANGED <<reVars, guardVars, memVars>>

\* The client leaves the critical section through SpinLock::Release.
SpinRelease(t) ==
    /\ spc[t] = "release"
    /\ SpinLock_Release(t)
    /\ spc' = [spc EXCEPT ![t] = "idle"]
    /\ iter' = [iter EXCEPT ![t] = @ + 1]
    /\ UNCHANGED <<sret, X, reg>>
    /\ UNCHANGED <<reVars, guardVars, memVars>>

NextSpin ==
    \E t \in Threads :
        \/ SpinAcquireCall(t)
        \/ SpinAcquireLoop(t)
        \/ SpinPause(t)
        \/ SpinTryCall(t)
        \/ SpinTryAcquire(t)
        \/ CriticalRead(t)
        \/ CriticalWrite(t)
        \/ SpinRelease(t)

SpecSpin == Init /\ [][NextSpin]_vars

InCritical(t) == spc[t] \in {"cs_read", "cs_write", "release"}

\* C1: SpinLock mutual exclusion - at most one client is between a successful
\* acquire (Acquire returned, or TryAcquire returned true) and its Release.
SpinMutualExclusion ==
    \A a, b \in Threads : (InCritical(a) /\ InCritical(b)) => a = b

\* C1 witness: one client is inside the critical section while another one is
\* spinning in Acquire after a failed attempt.
SpinContended ==
    \E a, b \in Threads : a # b /\ spc[a] = "cs_write" /\ spc[b] = "pause"

\* C6: no lost updates - once every client has finished its Iters critical
\* sections, X is the number of clients times Iters.
NoLostUpdates ==
    (\A t \in Threads : spc[t] = "idle" /\ iter[t] = Iters) => X = NThreads * Iters

\* C6 witness: all clients have finished and X has the full count.
AllIncrementsDone ==
    /\ \A t \in Threads : spc[t] = "idle" /\ iter[t] = Iters
    /\ X = NThreads * Iters

\* C9: TryAcquire is one test-and-set step that always completes - whenever a
\* client evaluates it, it returns true exactly when the flag was clear before
\* the step, the flag is set after the step in either case, and it returns
\* true to no client while another client still holds the lock.
TryAcquireIsTestAndSet ==
    [][\A t \in Threads :
          (spc[t] \in {"acquire", "try"} /\ spc'[t] # spc[t])
              => /\ g_lock'
                 /\ sret'[t] = ~g_lock
                 /\ (spc'[t] = "cs_read") = ~g_lock
                 /\ sret'[t] => \A u \in Threads \ {t} : ~InCritical(u)]_vars

\* C9 witness: one client's TryAcquire returned true and, while that client
\* holds the lock, another client's TryAcquire returned false.
TryAcquireBothResults ==
    \E a, b \in Threads :
        /\ a # b
        /\ spc[a] = "cs_read" /\ sret[a]
        /\ spc[b] = "pause" /\ ~sret[b] /\ g_lock

(***************************************************************************)
(* ReentrantLock32                                                         *)
(***************************************************************************)

\* assert(actual == tid) failed in some thread: the process has been aborted.
Aborted == \E u \in Threads : pc[u] = "assert_failed"

\* A client may start a call: it is between calls, the process is alive, and
\* the run has not made MaxCalls calls yet.
CanCall(t) ==
    /\ t \in live
    /\ pc[t] = "idle"
    /\ ~Aborted
    /\ calls < MaxCalls

\* The call is entered and continues at `to`: the results of the previous
\* call are forgotten.
Enter(t, name, to) ==
    /\ pc' = [pc EXCEPT ![t] = to]
    /\ ret' = [ret EXCEPT ![t] = "none"]
    /\ casTries' = [casTries EXCEPT ![t] = 0]
    /\ calls' = calls + 1
    /\ hist' = IF live = {t} THEN Append(hist, name) ELSE hist

\* A step inside a call.
Running(t, at) ==
    /\ t \in live
    /\ pc[t] = at
    /\ ~Aborted

\* A plausible slip: the exchange is made without comparing with `expected`.
ExchangeWithoutCompare(expected, desired, spurious) ==
    [ok |-> TRUE, value |-> desired]

\* compare_exchange on m_atomic: succeeds, storing `desired`, when m_atomic
\* holds `expected`; the weak form may also fail spuriously.
CompareExchange(expected, desired, spurious) ==
    IF m_atomic = expected /\ ~spurious
        THEN [ok |-> TRUE, value |-> desired]
        ELSE [ok |-> FALSE, value |-> m_atomic]

\* ---- ReentrantLock32::Acquire ----
\* The client calls Acquire; its first access to shared memory is
\* if (m_atomic.load(relaxed)): the spin loop is entered when the word is
\* non-zero, and skipped when it is zero.
AcquireLoad(t) ==
    /\ CanCall(t)
    /\ Enter(t, "Acquire", IF m_atomic # 0 THEN "acq_cas" ELSE "acq_inc_read")
    /\ UNCHANGED <<m_atomic, m_refCount, tmp, holds, tid, live>>
    /\ UNCHANGED <<spinVars, guardVars, memVars>>

\* The loop condition: compare_exchange_weak(unlockValue = 0, tid).
AcquireCas(t) ==
    /\ Running(t, "acq_cas")
    /\ \E spurious \in BOOLEAN :
          LET r == CompareExchange(0, tid[t], spurious) IN
          /\ m_atomic' = r.value
          /\ pc' = [pc EXCEPT ![t] = IF r.ok THEN "acq_inc_read" ELSE "acq_pause"]
    /\ UNCHANGED <<m_refCount, tmp, ret, holds, tid, live, calls, hist, casTries>>
    /\ UNCHANGED <<spinVars, guardVars, memVars>>

\* The loop body: unlockValue = 0; PAUSE().
AcquirePause(t) ==
    /\ Running(t, "acq_pause")
    /\ pc' = [pc EXCEPT ![t] = "acq_cas"]
    /\ UNCHANGED <<m_atomic, m_refCount, tmp, ret, holds, tid, live, calls, hist, casTries>>
    /\ UNCHANGED <<spinVars, guardVars, memVars>>

\* ++m_refCount: the read ...
AcquireIncRead(t) ==
    /\ Running(t, "acq_inc_read")
    /\ tmp' = [tmp EXCEPT ![t] = m_refCount]
    /\ pc' = [pc EXCEPT ![t] = "acq_inc_write"]
    /\ UNCHANGED <<m_atomic, m_refCount, ret, holds, tid, live, calls, hist, casTries>>
    /\ UNCHANGED <<spinVars, guardVars, memVars>>

\* ... and the write; Acquire returns after the fence.
AcquireIncWrite(t) ==
    /\ Running(t, "acq_inc_write")
    /\ m_refCount' = tmp[t] + 1
    /\ holds' = [holds EXCEPT ![t] = Append(@, "Acquire")]
    /\ tmp' = [tmp EXCEPT ![t] = 0]
    /\ pc' = [pc EXCEPT ![t] = "idle"]
    /\ UNCHANGED <<m_atomic, ret, tid, live, calls, hist, casTries>>
    /\ UNCHANGED <<spinVars, guardVars, memVars>>

\* ---- ReentrantLock32::TryAcquire ----
\* A plausible slip: the fast path tests the word for non-zero, as Acquire
\* does, in place of comparing it with tid.
TryLoadAnyOwner(t) ==
    /\ CanCall(t)
    /\ Enter(t, "TryAcquire", IF m_atomic # 0 THEN "try_inc_read" ELSE "try_cas")
    /\ UNCHANGED <<m_atomic, m_refCount, tmp, holds, tid, live>>
    /\ UNCHANGED <<spinVars, guardVars, memVars>>

\* The client calls TryAcquire; its first access to shared memory is
\* if (m_atomic.load(relaxed) == tid) acquired = true; else the exchange.
TryLoad(t) ==
    /\ CanCall(t)
    /\ Enter(t, "TryAcquire", IF m_atomic = tid[t] THEN "try_inc_read" ELSE "try_cas")
    /\ UNCHANGED <<m_atomic, m_refCount, tmp, holds, tid, live>>
    /\ UNCHANGED <<spinVars, guardVars, memVars>>

\* A plausible slip: the count is incremented before `acquired` is tested.
TryCasCountsFirst(t) ==
    /\ Running(t, "try_cas")
    /\ LET r == CompareExchange(0, tid[t], FALSE) IN
          /\ m_atomic' = r.value
          /\ m_refCount' = m_refCount + 1
          /\ pc' = [pc EXCEPT ![t] = "idle"]
          /\ ret' = [ret EXCEPT ![t] = IF r.ok THEN "true" ELSE "false"]
          /\ holds' = [holds EXCEPT ![t] = IF r.ok THEN Append(@, "TryAcquire") ELSE @]
    /\ casTries' = [casTries EXCEPT ![t] = @ + 1]
    /\ UNCHANGED <<tmp, tid, live, calls, hist>>
    /\ UNCHANGED <<spinVars, guardVars, memVars>>

\* acquired = compare_exchange_strong(unlockValue = 0, tid); when it fails,
\* `if (acquired)` is skipped and TryAcquire returns false.
TryCas(t) ==
    /\ Running(t, "try_cas")
    /\ LET r == CompareExchange(0, tid[t], FALSE) IN
          /\ m_atomic' = r.value
          /\ pc' = [pc EXCEPT ![t] = IF r.ok THEN "try_inc_read" ELSE "idle"]
          /\ ret' = [ret EXCEPT ![t] = IF r.ok THEN "none" ELSE "false"]
    /\ casTries' = [casTries EXCEPT ![t] = @ + 1]
    /\ UNCHANGED <<m_refCount, tmp, holds, tid, live, calls, hist>>
    /\ UNCHANGED <<spinVars, guardVars, memVars>>

\* if (acquired) ++m_refCount: the read ...
TryIncRead(t) ==
    /\ Running(t, "try_inc_read")
    /\ tmp' = [tmp EXCEPT ![t] = m_refCount]
    /\ pc' = [pc EXCEPT ![t] = "try_inc_write"]
    /\ UNCHANGED <<m_atomic, m_refCount, ret, holds, tid, live, calls, hist, casTries>>
    /\ UNCHANGED <<spinVars, guardVars, memVars>>

\* ... and the write; TryAcquire returns true after the fence.
TryIncWrite(t) ==
    /\ Running(t, "try_inc_write")
    /\ m_refCount' = tmp[t] + 1
    /\ holds' = [holds EXCEPT ![t] = Append(@, "TryAcquire")]
    /\ ret' = [ret EXCEPT ![t] = "true"]
    /\ tmp' = [tmp EXCEPT ![t] = 0]
    /\ pc' = [pc EXCEPT ![t] = "idle"]
    /\ UNCHANGED <<m_atomic, tid, live, calls, hist, casTries>>
    /\ UNCHANGED <<spinVars, guardVars, memVars>>

\* ---- ReentrantLock32::Release ----
\* A plausible slip: the assertion is left out (or compiled out).
ReleaseLoadUnchecked(t) ==
    /\ CanCall(t)
    /\ Enter(t, "Release", "rel_dec_read")
    /\ holds' = [holds EXCEPT ![t] = IF @ = <<>> THEN @ ELSE SubSeq(@, 1, Len(@) - 1)]
    /\ UNCHANGED <<m_atomic, m_refCount, tmp, tid, live>>
    /\ UNCHANGED <<spinVars, guardVars, memVars>>

\* The client gives up its innermost hold (if it has one) by calling Release;
\* the first access to shared memory is
\* actual = m_atomic.load(relaxed); assert(actual == tid).
ReleaseLoad(t) ==
    /\ CanCall(t)
    /\ Enter(t, "Release", IF m_atomic = tid[t] THEN "rel_dec_read" ELSE "assert_failed")
    /\ holds' = [holds EXCEPT ![t] = IF @ = <<>> THEN @ ELSE SubSeq(@, 1, Len(@) - 1)]
    /\ UNCHANGED <<m_atomic, m_refCount, tmp, tid, live>>
    /\ UNCHANGED <<spinVars, guardVars, memVars>>

\* --m_refCount: the read ...
ReleaseDecRead(t) ==
    /\ Running(t, "rel_dec_read")
    /\ tmp' = [tmp EXCEPT ![t] = m_refCount]
    /\ pc' = [pc EXCEPT ![t] = "rel_dec_write"]
    /\ UNCHANGED <<m_atomic, m_refCount, ret, holds, tid, live, calls, hist, casTries>>
    /\ UNCHANGED <<spinVars, guardVars, memVars>>

\* ... and the write.
ReleaseDecWrite(t) ==
    /\ Running(t, "rel_dec_write")
    /\ m_refCount' = tmp[t] - 1
    /\ tmp' = [tmp EXCEPT ![t] = 0]
    /\ pc' = [pc EXCEPT ![t] = "rel_test"]
    /\ UNCHANGED <<m_atomic, ret, holds, tid, live, calls, hist, casTries>>
    /\ UNCHANGED <<spinVars, guardVars, memVars>>

\* if (m_refCount == 0): the store follows, otherwise Release returns.
ReleaseTest(t) ==
    /\ Running(t, "rel_test")
    /\ pc' = [pc EXCEPT ![t] = IF m_refCount = 0 THEN "rel_store" ELSE "idle"]
    /\ UNCHANGED <<m_atomic, m_refCount, tmp, ret, holds, tid, live, calls, hist, casTries>>
    /\ UNCHANGED <<spinVars, guardVars, memVars>>

\* m_atomic.store(0, relaxed); Release returns.
ReleaseStore(t) ==
    /\ Running(t, "rel_store")
    /\ m_atomic' = 0
    /\ pc' = [pc EXCEPT ![t] = "idle"]
    /\ UNCHANGED <<m_refCount, tmp, ret, holds, tid, live, calls, hist, casTries>>
    /\ UNCHANGED <<spinVars, guardVars, memVars>>

Next ==
    \E t \in Threads :
        \/ AcquireLoad(t)
        \/ AcquireCas(t)
        \/ AcquirePause(t)
        \/ AcquireIncRead(t)
        \/ AcquireIncWrite(t)
        \/ TryLoad(t)
        \/ TryCas(t)
        \/ TryIncRead(t)
        \/ TryIncWrite(t)
        \/ ReleaseLoad(t)
        \/ ReleaseDecRead(t)
        \/ ReleaseDecWrite(t)
        \/ ReleaseTest(t)
        \/ ReleaseStore(t)

\* Any number of threads use one ReentrantLock32.
Spec == Init /\ [][Next]_vars

\* A single thread uses one ReentrantLock32.
SpecSolo == InitSolo /\ [][Next]_vars

(***************************************************************************)
(* Properties of ReentrantLock32                                           *)
(***************************************************************************)

\* The client has returned from an Acquire whose matching Release it has not
\* called yet.
HoldsByAcquire(t) == \E i \in 1..Len(holds[t]) : holds[t][i] = "Acquire"

IsPrefix(s, u) == Len(s) <= Len(u) /\ s = SubSeq(u, 1, Len(s))

Rep(x, n) == [i \in 1..n |-> x]

\* C2: exclusion through Acquire - two distinct threads are never both
\* between a returned Acquire and the matching Release.
AcquireExclusion ==
    ~Aborted => \A a, b \in Threads :
                    (HoldsByAcquire(a) /\ HoldsByAcquire(b)) => a = b

\* C3: reentrancy - a single thread that calls Acquire, Acquire, Release,
\* Release on a fresh lock fires no assertion on the way and, when the last
\* call has returned, the lock is Unlocked (m_atomic = 0, m_refCount = 0).
ReentrantAcquireRelease ==
    LET script == <<"Acquire", "Acquire", "Release", "Release">> IN
    /\ IsPrefix(hist, script) => ~Aborted
    /\ (hist = script /\ \A t \in live : pc[t] = "idle")
           => (m_atomic = 0 /\ m_refCount = 0)

\* C4: cross-thread exclusion through TryAcquire - while m_atomic holds the
\* identity of thread a, no other thread has just been returned true by
\* TryAcquire.
TryAcquireExcludesOthers ==
    \A a, b \in Threads :
        (a # b /\ m_atomic = tid[a] /\ pc[b] = "idle") => ret[b] # "true"

\* C4 witness: thread a owns the lock with a positive count and thread b's
\* TryAcquire has returned false.
TryAcquireRefused ==
    \E a, b \in Threads :
        /\ a # b
        /\ m_atomic = tid[a] /\ m_refCount >= 1 /\ holds[a] # <<>>
        /\ pc[b] = "idle" /\ ret[b] = "false"

\* C5: a thread that owns the lock never spins against itself in Acquire -
\* it is never in the body of the spin loop (after a failed exchange) while
\* m_atomic holds its own identity.
NeverSpinsAgainstItself ==
    \A t \in Threads : ~(pc[t] = "acq_pause" /\ m_atomic = tid[t])

\* C7: acquire/release symmetry - for every n >= 1, a single thread that makes
\* n Acquire calls on a fresh lock and then n Release calls fires no assertion
\* and leaves the lock Unlocked; one more Release fires the assertion and
\* leaves m_atomic = 0 and m_refCount = 0.
AcquireReleaseSymmetry ==
    \A n \in 1..MaxCalls :
        LET paired == Rep("Acquire", n) \o Rep("Release", n) IN
        /\ IsPrefix(hist, paired) => ~Aborted
        /\ (hist = paired /\ \A t \in live : pc[t] = "idle")
               => (m_atomic = 0 /\ m_refCount = 0)
        /\ hist = paired \o <<"Release">>
               => (Aborted /\ m_atomic = 0 /\ m_refCount = 0)

\* C8: Release by a thread whose identity is not the value of m_atomic fires
\* the assertion and writes nothing - the step leaves m_atomic and m_refCount
\* as they were, and no step follows the failed assertion.
ReleaseByNonOwnerFails ==
    [][/\ \A t \in Threads :
             (/\ pc[t] = "idle"
              /\ pc'[t] \in {"rel_dec_read", "assert_failed"}
              /\ m_atomic # tid[t])
                 => /\ pc'[t] = "assert_failed"
                    /\ m_atomic' = m_atomic
                    /\ m_refCount' = m_refCount
       /\ Aborted => UNCHANGED vars]_vars

\* C8 witness: a thread called Release while another thread owned the lock,
\* and its assertion has failed with the owner and the count still in place.
ReleaseRefused ==
    \E a, b \in Threads :
        /\ a # b
        /\ pc[b] = "assert_failed"
        /\ m_atomic = tid[a] /\ m_refCount >= 1

\* C10: TryAcquire never blocks and writes nothing when it fails - every step
\* of a call is enabled; the load step and the failed exchange leave m_atomic
\* and m_refCount unchanged; false is returned by the failed exchange itself,
\* and a call makes at most one exchange.
TryAcquireFailureWritesNothing ==
    /\ [](\A t \in live :
            /\ (~Aborted /\ pc[t] = "try_cas") => ENABLED TryCas(t)
            /\ (~Aborted /\ pc[t] = "try_inc_read") => ENABLED TryIncRead(t)
            /\ (~Aborted /\ pc[t] = "try_inc_write") => ENABLED TryIncWrite(t)
            /\ casTries[t] <= 1
            /\ ret[t] = "false" => (casTries[t] = 1 /\ pc[t] = "idle"))
    /\ [][\A t \in Threads :
            /\ (pc[t] = "idle" /\ pc'[t] \in {"try_cas", "try_inc_read"})
                   => (m_atomic' = m_atomic /\ m_refCount' = m_refCount)
            /\ (pc[t] = "try_cas" /\ pc'[t] # pc[t])
                   => \/ pc'[t] = "try_inc_read" /\ m_atomic = 0
                      \/ /\ pc'[t] = "idle" /\ ret'[t] = "false"
                         /\ m_atomic' = m_atomic /\ m_refCount' = m_refCount
                         /\ holds' = holds
            /\ (ret'[t] = "false" /\ ret[t] # "false") => pc[t] = "try_cas"]_vars

\* C10 witness: a TryAcquire has returned false after its single exchange,
\* while another thread owns the lock.
TryAcquireReturnedFalse ==
    \E t \in Threads :
        /\ pc[t] = "idle" /\ ret[t] = "false" /\ casTries[t] = 1
        /\ m_atomic # 0 /\ m_atomic # tid[t]

(***************************************************************************)
(* ScopedLock<SpinLock> on g_lock: ThreadSafeFunction, A and B             *)
(***************************************************************************)

Functions == {"ThreadSafeFunction", "A", "B"}

Top(t) == scopes[t][Len(scopes[t])]

\* A thread calls one of the functions; the first statement of each declares
\* ScopedLock<decltype(g_lock)> janitor(g_lock).
GuardedCall(t) ==
    /\ spc[t] = "idle"
    /\ iter[t] < Iters
    /\ \E f \in Functions : scopes' = [scopes EXCEPT ![t] = <<f>>]
    /\ exit' = [exit EXCEPT ![t] = "none"]
    /\ spc' = [spc EXCEPT ![t] = "ctor"]
    /\ UNCHANGED <<g_lock, sret, X, reg, iter, nAcquire, nRelease, stray>>
    /\ UNCHANGED <<reVars, memVars>>

\* ScopedLock::ScopedLock: m_pLock->Acquire(), one evaluation of the loop
\* condition !TryAcquire(); the constructor returns when it is false.
ScopedLock_ctor(t) ==
    /\ spc[t] = "ctor"
    /\ SpinLock_TryAcquire(t)
    /\ spc' = [spc EXCEPT ![t] = IF sret'[t] THEN "body" ELSE "ctor_pause"]
    /\ nAcquire' = [nAcquire EXCEPT ![t] = IF sret'[t] THEN @ + 1 ELSE @]
    /\ UNCHANGED <<X, reg, iter, scopes, nRelease, exit, stray>>
    /\ UNCHANGED <<reVars, memVars>>

\* PAUSE() in SpinLock::Acquire called by the constructor.
CtorPause(t) ==
    /\ spc[t] = "ctor_pause"
    /\ spc' = [spc EXCEPT ![t] = "ctor"]
    /\ UNCHANGED <<g_lock, sret, X, reg, iter>>
    /\ UNCHANGED <<reVars, guardVars, memVars>>

\* A plausible slip: the early return leaves without releasing the lock.
EarlyReturnSkipsRelease(t) ==
    /\ spc[t] = "body"
    /\ Top(t) = "ThreadSafeFunction"
    /\ exit' = [exit EXCEPT ![t] = "early"]
    /\ scopes' = [scopes EXCEPT ![t] = <<>>]
    /\ iter' = [iter EXCEPT ![t] = @ + 1]
    /\ spc' = [spc EXCEPT ![t] = "idle"]
    /\ UNCHANGED <<g_lock, sret, X, reg, nAcquire, nRelease, stray>>
    /\ UNCHANGED <<reVars, memVars>>

\* ThreadSafeFunction: SomethingWentWrong() is true, return -1; the janitor
\* goes out of scope.
EarlyReturn(t) ==
    /\ spc[t] = "body"
    /\ Top(t) = "ThreadSafeFunction"
    /\ exit' = [exit EXCEPT ![t] = "early"]
    /\ spc' = [spc EXCEPT ![t] = "dtor"]
    /\ UNCHANGED <<g_lock, sret, X, reg, iter, scopes, nAcquire, nRelease, stray>>
    /\ UNCHANGED <<reVars, memVars>>

\* ThreadSafeFunction (SomethingWentWrong() is false, return 0) and A: the
\* end of the function is reached; the janitor goes out of scope.
NormalReturn(t) ==
    /\ spc[t] = "body"
    /\ Top(t) \in {"ThreadSafeFunction", "A"}
    /\ exit' = [exit EXCEPT ![t] = "normal"]
    /\ spc' = [spc EXCEPT ![t] = "dtor"]
    /\ UNCHANGED <<g_lock, sret, X, reg, iter, scopes, nAcquire, nRelease, stray>>
    /\ UNCHANGED <<reVars, memVars>>

\* B: A() is called while B's janitor is alive; A declares its own janitor
\* on the same g_lock.
BCallsA(t) ==
    /\ spc[t] = "body"
    /\ Top(t) = "B"
    /\ scopes' = [scopes EXCEPT ![t] = Append(@, "A")]
    /\ spc' = [spc EXCEPT ![t] = "ctor"]
    /\ UNCHANGED <<g_lock, sret, X, reg, iter, nAcquire, nRelease, exit, stray>>
    /\ UNCHANGED <<reVars, memVars>>

\* ScopedLock::~ScopedLock: m_pLock->Release().  The function returns; when
\* it returns into B, B runs to its end and B's janitor goes out of scope.
ScopedLock_dtor(t) ==
    /\ spc[t] = "dtor"
    /\ SpinLock_Release(t)
    /\ nRelease' = [nRelease EXCEPT ![t] = @ + 1]
    /\ scopes' = [scopes EXCEPT ![t] = SubSeq(@, 1, Len(@) - 1)]
    /\ spc' = [spc EXCEPT ![t] = IF Len(scopes[t]) = 1 THEN "idle" ELSE "dtor"]
    /\ iter' = [iter EXCEPT ![t] = IF Len(scopes[t]) = 1 THEN @ + 1 ELSE @]
    /\ UNCHANGED <<sret, X, reg, nAcquire, exit, stray>>
    /\ UNCHANGED <<reVars, memVars>>

NextGuard ==
    \E t \in Threads :
        \/ GuardedCall(t)
        \/ ScopedLock_ctor(t)
        \/ CtorPause(t)
        \/ EarlyReturn(t)
        \/ NormalReturn(t)
        \/ BCallsA(t)
        \/ ScopedLock_dtor(t)

\* Threads call ThreadSafeFunction, A and B.
SpecGuard == Init /\ [][NextGuard]_vars

\* The janitors of thread t whose constructor has returned and whose
\* destructor has not run yet.
LiveJanitors(t) ==
    IF spc[t] \in {"ctor", "ctor_pause"} THEN Len(scopes[t]) - 1 ELSE Len(scopes[t])

\* C11: guard correctness - a constructor returns only with the lock taken by
\* its one Acquire; every janitor that has gone out of scope, by fall-through
\* or by the early return, has called Release exactly once; and when all
\* threads are outside the functions the Release calls equal the returned
\* Acquire calls and g_lock is Unlocked.
GuardReleasesOnce ==
    /\ \A t \in Threads :
          /\ nAcquire[t] - nRelease[t] = LiveJanitors(t)
          /\ spc[t] = "body" => (g_lock /\ sret[t])
          /\ spc[t] = "idle" => (nAcquire[t] = iter[t] /\ nRelease[t] = iter[t])
    /\ (\A t \in Threads : spc[t] = "idle") => ~g_lock

\* C11 witness: a thread has left ThreadSafeFunction by the early return, with
\* one Release for its one Acquire, and g_lock is Unlocked.
EarlyReturnReleased ==
    \E t \in Threads :
        /\ spc[t] = "idle" /\ exit[t] = "early"
        /\ nAcquire[t] >= 1 /\ nRelease[t] = nAcquire[t]
        /\ ~g_lock

\* C12: B calling A deadlocks - the janitor that A declares while B's janitor
\* holds g_lock never finishes its constructor.
NestedAcquireNeverReturns ==
    \A t \in Threads : Len(scopes[t]) = 2 => spc[t] \in {"ctor", "ctor_pause"}

\* C12 witness: a thread inside B has called A and is spinning in the Acquire
\* of A's janitor on the lock it holds itself.
SpinningInsideB ==
    \E t \in Threads :
        /\ scopes[t] = <<"B", "A">>
        /\ spc[t] = "ctor_pause" /\ g_lock /\ nAcquire[t] - nRelease[t] = 1

(***************************************************************************)
(* Further properties of ReentrantLock32                                   *)
(***************************************************************************)

\* The calls of the single thread are paired: no prefix of its calls has more
\* Release calls than Acquire and TryAcquire calls.
PairedCalls ==
    \A k \in 1..Len(hist) :
        Cardinality({i \in 1..k : hist[i] = "Release"})
            <= Cardinality({i \in 1..k : hist[i] # "Release"})

\* The thread is at an access to m_refCount: the read or the write of
\* ++m_refCount or --m_refCount, or the test m_refCount == 0.
AtRefCount(t) ==
    pc[t] \in {"acq_inc_read", "acq_inc_write", "try_inc_read", "try_inc_write",
               "rel_dec_read", "rel_dec_write", "rel_test"}

\* C13: state invariant - whenever no thread is inside a call, and the calls
\* made so far were paired, m_refCount > 0 exactly when m_atomic # 0.
RefCountIffOwned ==
    (PairedCalls /\ \A t \in live : pc[t] = "idle")
        => ((m_refCount > 0) <=> (m_atomic # 0))

\* C14: m_refCount is private to the owner - a thread that is at an access
\* to m_refCount is the thread whose identity m_atomic holds, and no two
\* threads are at an access to m_refCount at once.
RefCountOwnerPrivate ==
    /\ \A t \in Threads : AtRefCount(t) => m_atomic = tid[t]
    /\ \A a, b \in Threads : (AtRefCount(a) /\ AtRefCount(b)) => a = b

\* C17: TryAcquire succeeds on one of two paths - on the fast path (the load
\* found the caller's identity, no compare-exchange was made) the count grows
\* by exactly 1 and m_atomic stays the caller's identity; on the other path
\* (the one compare-exchange succeeded) the call ends with m_atomic = the
\* caller's identity and m_refCount = 1.
TryAcquireSuccessPaths ==
    [][\A t \in Threads :
          (pc[t] = "try_inc_write" /\ pc'[t] = "idle") =>
              /\ ret'[t] = "true"
              /\ m_atomic' = tid[t]
              /\ casTries[t] \in {0, 1}
              /\ casTries[t] = 0 => (m_atomic = tid[t] /\ m_refCount' = m_refCount + 1)
              /\ casTries[t] = 1 => m_refCount' = 1]_vars

\* C18: Release by the owner takes exactly 1 from m_refCount and leaves
\* m_atomic alone, except that the Release that brings the count to 0, and
\* only that one, stores 0 into m_atomic.
ReleaseDecrementsByOne ==
    [][\A t \in Threads :
          /\ (pc[t] = "rel_dec_write" /\ pc'[t] = "rel_test") =>
                 (m_refCount' = m_refCount - 1 /\ m_atomic' = m_atomic)
          /\ (pc[t] = "rel_test" /\ pc'[t] = "idle") =>
                 (m_refCount > 0 /\ m_atomic' = tid[t])
          /\ (pc[t] = "rel_store" /\ pc'[t] = "idle") =>
                 (m_refCount = 0 /\ m_atomic' = 0)]_vars

(***************************************************************************)
(* The thread identity and the unlocked value 0                            *)
(***************************************************************************)

\* std::hash<std::thread::id> promises nothing about the values it returns:
\* the identities are any distinct values of the word, 0 among them.
HashValues == 0..NThreads

InitHash ==
    /\ InitSpin
    /\ InitGuard
    /\ InitMem({"SpinLock"})
    /\ m_atomic = 0
    /\ m_refCount = 0
    /\ pc = [t \in Threads |-> "idle"]
    /\ tmp = [t \in Threads |-> 0]
    /\ ret = [t \in Threads |-> "none"]
    /\ holds = [t \in Threads |-> <<>>]
    /\ calls = 0
    /\ hist = <<>>
    /\ casTries = [t \in Threads |-> 0]
    /\ tid \in {h \in [Threads -> HashValues] :
                   \A a, b \in Threads : h[a] = h[b] => a = b}
    /\ live = Threads

SpecHash == InitHash /\ [][Next]_vars

\* C19: the identity of every live thread is non-zero, so no thread is
\* treated as already owning an unlocked lock - a thread on TryAcquire's
\* already-owner path (no compare-exchange made) found the lock locked, and
\* a lock held through TryAcquire is not in the unlocked state.
IdentityNeverSentinel ==
    \A t \in live :
        /\ (pc[t] \in {"try_inc_read", "try_inc_write"} /\ casTries[t] = 0)
               => m_atomic # 0
        /\ (pc[t] = "idle" /\ ret[t] = "true" /\ holds[t] # <<>>
               /\ holds[t][Len(holds[t])] = "TryAcquire" /\ casTries[t] = 0)
               => m_atomic # 0

(***************************************************************************)
(* SpinLock::Release called by a thread that does not hold the lock        *)
(***************************************************************************)

\* A thread that is outside every call on g_lock, and so does not hold it,
\* calls Release: the body is the one clear(), with no test of who holds the
\* flag, and the call returns.
StrayRelease(t) ==
    /\ spc[t] = "idle"
    /\ stray < MaxStray
    /\ SpinLock_Release(t)
    /\ stray' = stray + 1
    /\ UNCHANGED <<spc, sret, X, reg, iter, scopes, nAcquire, nRelease, exit>>
    /\ UNCHANGED <<reVars, memVars>>

NextMisuse ==
    \/ \E t \in Threads : SpinAcquireCall(t)
    \/ \E t \in Threads : SpinAcquireLoop(t)
    \/ \E t \in Threads : SpinPause(t)
    \/ \E t \in Threads : SpinTryCall(t)
    \/ \E t \in Threads : SpinTryAcquire(t)
    \/ \E t \in Threads : CriticalRead(t)
    \/ \E t \in Threads : CriticalWrite(t)
    \/ \E t \in Threads : SpinRelease(t)
    \/ \E t \in Threads : StrayRelease(t)

SpecMisuse == Init /\ [][NextMisuse]_vars

\* C16: a Release of the SpinLock by a thread that does not hold it is
\* detected and never silently applied to the flag - the call leaves the
\* flag as it was, so a thread that holds the lock still holds it.
StrayReleaseNotApplied ==
    [][(stray' # stray) => (g_lock' = g_lock)]_vars

(***************************************************************************)
(* Progress of SpinLock                                                    *)
(***************************************************************************)

\* Every client repeats Acquire; critical section; Release on g_lock.
NextAcquire ==
    \/ \E t \in Threads : SpinAcquireCall(t)
    \/ \E t \in Threads : SpinAcquireLoop(t)
    \/ \E t \in Threads : SpinPause(t)
    \/ \E t \in Threads : CriticalRead(t)
    \/ \E t \in Threads : CriticalWrite(t)
    \/ \E t \in Threads : SpinRelease(t)

\* The steps of a thread that is inside Acquire, the critical section or
\* Release; a thread that is given the processor takes them.
SpinStep(t) ==
    \/ SpinAcquireLoop(t)
    \/ SpinPause(t)
    \/ CriticalRead(t)
    \/ CriticalWrite(t)
    \/ SpinRelease(t)

SpecProgress ==
    /\ Init
    /\ [][NextAcquire]_vars
    /\ \A t \in Threads : WF_vars(SpinStep(t))

\* The thread is inside the loop of SpinLock::Acquire.
Spinning(t) == spc[t] \in {"acquire", "pause"}

\* The critical sections the threads of S have completed.
RECURSIVE Completed(_)
Completed(S) ==
    IF S = {} THEN 0
    ELSE LET t == CHOOSE u \in S : TRUE IN iter[t] + Completed(S \ {t})

\* The number of times SpinLock::Acquire has returned so far: once for every
\* critical section completed or under way.
AcquireReturns ==
    Completed(Threads) + Cardinality({t \in Threads : InCritical(t)})

\* C20: whenever some thread is inside SpinLock::Acquire, a thread later
\* returns from Acquire; and the flag never stays unlocked for ever while
\* threads keep spinning.
SpinProgress ==
    /\ \A n \in 0..(NThreads * Iters) :
          ((\E t \in Threads : Spinning(t)) /\ AcquireReturns = n)
              ~> (AcquireReturns > n)
    /\ ~<>[](~g_lock /\ \E t \in Threads : Spinning(t))

SpinnerSeesUnlocked ==
    \E a, b \in Threads :
        /\ a # b
        /\ spc[a] = "pause"
        /\ iter[b] >= 1
        /\ spc[b] = "idle"
        /\ ~g_lock

(***************************************************************************)
(* Visibility of the protected data under the C++ memory model             *)
(*                                                                         *)
(* The lock word is kept with its modification order mo.  A relaxed load   *)
(* may return any entry the thread has not yet seen a later one of; a      *)
(* read-modify-write reads the last entry.  An entry carries the data      *)
(* write that becomes visible to a thread that synchronizes with it: for a *)
(* release store the writer's own view, for a relaxed store the view at    *)
(* the writer's last release fence, and a read-modify-write passes on what *)
(* the entry it read carries (release sequence).  An acquire load takes    *)
(* over what its entry carries at once, a relaxed load at the thread's     *)
(* next acquire fence.  m_atomic and g_lock are the last entry of mo.      *)
(* m_refCount is read and written in place.                                *)
(***************************************************************************)

Max(a, b) == IF a >= b THEN a ELSE b

\* assert(actual == tid) failed in some thread: the process has stopped.
MemAborted == \E t \in Threads : mpc[t] = "assert_failed"

At(t, where) == mpc[t] = where /\ ~MemAborted

Goto(t, to) == mpc' = [mpc EXCEPT ![t] = to]

\* A client calls into the lock.
MemCall(t, type) ==
    /\ At(t, "idle")
    /\ lockType = type
    /\ mdone[t] < Iters
    /\ mdone' = [mdone EXCEPT ![t] = @ + 1]
    /\ need' = [need EXCEPT ![t] = pub]

\* m_atomic.load(relaxed) returns entry i of the modification order.
LoadRelaxed(t, i) ==
    /\ i \in vLock[t]..Len(mo)
    /\ vLock' = [vLock EXCEPT ![t] = i]
    /\ acqv' = [acqv EXCEPT ![t] = Max(@, mo[i].view)]

\* A store of v to the lock word, carrying the data write `carried`.
StoreWord(t, v, carried) ==
    /\ mo' = Append(mo, [val |-> v, view |-> carried])
    /\ vLock' = [vLock EXCEPT ![t] = Len(mo) + 1]

spinRest == <<spc, X, reg, iter>>
lockRest == <<pc, tmp, ret, holds, tid, live, calls, hist, casTries>>

\* ---- ReentrantLock32 ----
\* Acquire: if (m_atomic.load(relaxed)).
MemAcquireLoad(t) ==
    /\ MemCall(t, "ReentrantLock32")
    /\ \E i \in vLock[t]..Len(mo) :
          /\ LoadRelaxed(t, i)
          /\ Goto(t, IF mo[i].val # 0 THEN "acq_cas" ELSE "acq_inc")
    /\ UNCHANGED <<lockType, mo, data, vData, relv, seen, pub>>
    /\ UNCHANGED <<m_atomic, m_refCount, g_lock, sret>>
    /\ UNCHANGED <<spinRest, lockRest, guardVars>>

\* Acquire: one compare_exchange_weak(0, tid, relaxed, relaxed) of the loop;
\* PAUSE() touches no memory.
MemAcquireCas(t) ==
    /\ At(t, "acq_cas")
    /\ \E spurious \in BOOLEAN :
          LET r == CompareExchange(0, tid[t], spurious)
              last == mo[Len(mo)] IN
          /\ m_atomic' = r.value
          /\ acqv' = [acqv EXCEPT ![t] = Max(@, last.view)]
          /\ IF r.ok
                THEN /\ StoreWord(t, tid[t], Max(relv[t], last.view))
                     /\ Goto(t, "acq_inc")
                ELSE /\ vLock' = [vLock EXCEPT ![t] = Len(mo)]
                     /\ UNCHANGED <<mo, mpc>>
    /\ UNCHANGED <<lockType, data, vData, relv, seen, need, pub, mdone>>
    /\ UNCHANGED <<m_refCount, g_lock, sret>>
    /\ UNCHANGED <<spinRest, lockRest, guardVars>>

\* Acquire: ++m_refCount, then std::atomic_thread_fence(get_id()).  The
\* argument is not a memory order: the fence is the acquire fence of the
\* comment above it, or it orders nothing.
MemAcquireInc(t) ==
    /\ At(t, "acq_inc")
    /\ m_refCount' = m_refCount + 1
    /\ \E acquires \in BOOLEAN :
          vData' = [vData EXCEPT ![t] = IF acquires THEN Max(@, acqv[t]) ELSE @]
    /\ Goto(t, "cs_read")
    /\ UNCHANGED <<lockType, mo, data, vLock, relv, acqv, seen, need, pub, mdone>>
    /\ UNCHANGED <<m_atomic, g_lock, sret>>
    /\ UNCHANGED <<spinRest, lockRest, guardVars>>

\* TryAcquire: if (m_atomic.load(relaxed) == tid).
MemTryLoad(t) ==
    /\ MemCall(t, "ReentrantLock32")
    /\ \E i \in vLock[t]..Len(mo) :
          /\ LoadRelaxed(t, i)
          /\ Goto(t, IF mo[i].val = tid[t] THEN "try_inc" ELSE "try_cas")
    /\ UNCHANGED <<lockType, mo, data, vData, relv, seen, pub>>
    /\ UNCHANGED <<m_atomic, m_refCount, g_lock, sret>>
    /\ UNCHANGED <<spinRest, lockRest, guardVars>>

\* TryAcquire: compare_exchange_strong(0, tid, relaxed, relaxed).
MemTryCas(t) ==
    /\ At(t, "try_cas")
    /\ LET r == CompareExchange(0, tid[t], FALSE)
           last == mo[Len(mo)] IN
          /\ m_atomic' = r.value
          /\ acqv' = [acqv EXCEPT ![t] = Max(@, last.view)]
          /\ IF r.ok
                THEN /\ StoreWord(t, tid[t], Max(relv[t], last.view))
                     /\ Goto(t, "try_inc")
                ELSE /\ vLock' = [vLock EXCEPT ![t] = Len(mo)]
                     /\ Goto(t, "idle")
                     /\ UNCHANGED mo
    /\ UNCHANGED <<lockType, data, vData, relv, seen, need, pub, mdone>>
    /\ UNCHANGED <<m_refCount, g_lock, sret>>
    /\ UNCHANGED <<spinRest, lockRest, guardVars>>

\* TryAcquire: ++m_refCount; std::atomic_thread_fence(acquire).
MemTryInc(t) ==
    /\ At(t, "try_inc")
    /\ m_refCount' = m_refCount + 1
    /\ vData' = [vData EXCEPT ![t] = Max(@, acqv[t])]
    /\ Goto(t, "cs_read")
    /\ UNCHANGED <<lockType, mo, data, vLock, relv, acqv, seen, need, pub, mdone>>
    /\ UNCHANGED <<m_atomic, g_lock, sret>>
    /\ UNCHANGED <<spinRest, lockRest, guardVars>>

\* Release: std::atomic_thread_fence(release); actual = m_atomic.load(relaxed);
\* assert(actual == tid).
MemReleaseLoad(t) ==
    /\ At(t, "release")
    /\ lockType = "ReentrantLock32"
    /\ relv' = [relv EXCEPT ![t] = vData[t]]
    /\ \E i \in vLock[t]..Len(mo) :
          /\ LoadRelaxed(t, i)
          /\ Goto(t, IF mo[i].val = tid[t] THEN "rel_dec" ELSE "assert_failed")
    /\ UNCHANGED <<lockType, mo, data, vData, seen, need, pub, mdone>>
    /\ UNCHANGED <<m_atomic, m_refCount, g_lock, sret>>
    /\ UNCHANGED <<spinRest, lockRest, guardVars>>

\* Release: --m_refCount; if (m_refCount == 0) the store follows, otherwise
\* Release returns.
MemReleaseDec(t) ==
    /\ At(t, "rel_dec")
    /\ m_refCount' = m_refCount - 1
    /\ IF m_refCount' = 0
          THEN Goto(t, "rel_store") /\ UNCHANGED pub
          ELSE Goto(t, "idle") /\ pub' = Max(pub, vData[t])
    /\ UNCHANGED <<lockType, mo, data, vLock, vData, relv, acqv, seen, need, mdone>>
    /\ UNCHANGED <<m_atomic, g_lock, sret>>
    /\ UNCHANGED <<spinRest, lockRest, guardVars>>

\* Release: m_atomic.store(0, relaxed), after the release fence.
MemReleaseStore(t) ==
    /\ At(t, "rel_store")
    /\ StoreWord(t, 0, relv[t])
    /\ m_atomic' = 0
    /\ pub' = Max(pub, vData[t])
    /\ Goto(t, "idle")
    /\ UNCHANGED <<lockType, data, vData, relv, acqv, seen, need, mdone>>
    /\ UNCHANGED <<m_refCount, g_lock, sret>>
    /\ UNCHANGED <<spinRest, lockRest, guardVars>>

\* ---- SpinLock ----
\* The client calls SpinLock::Acquire.
MemSpinCall(t) ==
    /\ MemCall(t, "SpinLock")
    /\ Goto(t, "spin")
    /\ UNCHANGED <<lockType, mo, data, vLock, vData, relv, acqv, seen, pub>>
    /\ UNCHANGED <<m_atomic, m_refCount, g_lock, sret>>
    /\ UNCHANGED <<spinRest, lockRest, guardVars>>

\* One test_and_set(acquire) of the loop of SpinLock::Acquire: it reads the
\* last entry, and the flag stays or becomes set.
MemSpinAcquire(t) ==
    /\ At(t, "spin")
    /\ SpinLock_TryAcquire(t)
    /\ LET last == mo[Len(mo)] IN
          /\ vData' = [vData EXCEPT ![t] = Max(@, last.view)]
          /\ IF last.val = 0
                THEN /\ StoreWord(t, 1, Max(relv[t], last.view))
                     /\ Goto(t, "cs_read")
                ELSE /\ vLock' = [vLock EXCEPT ![t] = Len(mo)]
                     /\ UNCHANGED <<mo, mpc>>
    /\ UNCHANGED <<lockType, data, relv, acqv, seen, need, pub, mdone>>
    /\ UNCHANGED <<m_atomic, m_refCount>>
    /\ UNCHANGED <<spinRest, lockRest, guardVars>>

\* SpinLock::Release: m_atomic.clear(release).
MemSpinRelease(t) ==
    /\ At(t, "release")
    /\ lockType = "SpinLock"
    /\ SpinLock_Release(t)
    /\ StoreWord(t, 0, vData[t])
    /\ pub' = Max(pub, vData[t])
    /\ Goto(t, "idle")
    /\ UNCHANGED <<lockType, data, vData, relv, acqv, seen, need, mdone>>
    /\ UNCHANGED <<m_atomic, m_refCount, sret>>
    /\ UNCHANGED <<spinRest, lockRest, guardVars>>

\* ---- the critical section ----
\* The read of the protected data returns an entry the thread has not yet
\* seen a later one of.
MemRead(t) ==
    /\ At(t, "cs_read")
    /\ \E j \in vData[t]..Len(data) :
          /\ seen' = [seen EXCEPT ![t] = j]
          /\ vData' = [vData EXCEPT ![t] = j]
    /\ Goto(t, "cs_write")
    /\ UNCHANGED <<lockType, mo, data, vLock, relv, acqv, need, pub, mdone>>
    /\ UNCHANGED <<m_atomic, m_refCount, g_lock, sret>>
    /\ UNCHANGED <<spinRest, lockRest, guardVars>>

\* The write of the protected data: the value read plus one.
MemWrite(t) ==
    /\ At(t, "cs_write")
    /\ data' = Append(data, data[seen[t]] + 1)
    /\ vData' = [vData EXCEPT ![t] = Len(data) + 1]
    /\ Goto(t, "release")
    /\ UNCHANGED <<lockType, mo, vLock, relv, acqv, seen, need, pub, mdone>>
    /\ UNCHANGED <<m_atomic, m_refCount, g_lock, sret>>
    /\ UNCHANGED <<spinRest, lockRest, guardVars>>

NextMem ==
    \/ \E t \in Threads : MemAcquireLoad(t)
    \/ \E t \in Threads : MemAcquireCas(t)
    \/ \E t \in Threads : MemAcquireInc(t)
    \/ \E t \in Threads : MemTryLoad(t)
    \/ \E t \in Threads : MemTryCas(t)
    \/ \E t \in Threads : MemTryInc(t)
    \/ \E t \in Threads : MemReleaseLoad(t)
    \/ \E t \in Threads : MemReleaseDec(t)
    \/ \E t \in Threads : MemReleaseStore(t)
    \/ \E t \in Threads : MemSpinCall(t)
    \/ \E t \in Threads : MemSpinAcquire(t)
    \/ \E t \in Threads : MemSpinRelease(t)
    \/ \E t \in Threads : MemRead(t)
    \/ \E t \in Threads : MemWrite(t)

\* The data is protected by a SpinLock or by a ReentrantLock32.
InitVisibility ==
    /\ InitSpin
    /\ InitLock
    /\ InitGuard
    /\ InitMem({"SpinLock", "ReentrantLock32"})
    /\ live = Threads

SpecMem == InitVisibility /\ [][NextMem]_vars

\* C15: visibility - the read a thread makes right after its Acquire (or
\* successful TryAcquire) returns observes every write to the protected data
\* that was made before a Release that completed before the call began.
ReleasedWritesVisible ==
    \A t \in Threads : mpc[t] = "cs_write" => seen[t] >= need[t]

\* With a SpinLock the read observes the newest write.
SpinLockWritesVisible ==
    lockType = "SpinLock" =>
        \A t \in Threads : mpc[t] = "cs_write" => seen[t] = Len(data)

====
